---- MODULE Spec2Model ----
(***************************************************************************)
(* STUN Binding server (deus-stun-server-ts).                              *)
(*                                                                         *)
(* The repository holds three near-duplicate programs:                     *)
(*   "dgram" : the node:dgram servers with the RateLimiter class           *)
(*             (src/unnamed/part_000 and src/unnamed/part_001, whose       *)
(*             limiter, decoder, encoder and handler are line-for-line the *)
(*             same code);                                                 *)
(*   "bun"   : src/stun-server.ts, with the global requestTimestamps /     *)
(*             isPaused and the function checkRateLimit.                   *)
(* The variable `variant` selects the program; all other variables are the *)
(* state of that one program.  Time is Date.now() in abstract units; the   *)
(* event loop runs one callback (a datagram handler or a timer callback)   *)
(* to completion at a time.                                                *)
(***************************************************************************)
EXTENDS Integers, Sequences, FiniteSets, TLC

\* ------------------------------------------------------------------------
\* Bounds (scaled-down limiter configuration and time horizon)
\* ------------------------------------------------------------------------
MaxRequests == 2
TimeWindow == 3
PauseDuration == 2
MaxTime == 4

\* ------------------------------------------------------------------------
\* STUN constants
\* ------------------------------------------------------------------------
STUN_MAGIC_COOKIE == 554869826
STUN_BINDING_REQUEST == 1
STUN_BINDING_RESPONSE == 257
STUN_ATTR_XOR_MAPPED_ADDRESS == 32

Variants == {"dgram", "bun"}

\* ------------------------------------------------------------------------
\* Number and Buffer primitives
\* ------------------------------------------------------------------------
\* Mutant of xor: | is written for ^.
RECURSIVE xor_or(_, _)
xor_or(a, b) ==
  IF a = 0 THEN b
  ELSE IF b = 0 THEN a
  ELSE (IF (a % 2) + (b % 2) > 0 THEN 1 ELSE 0) + 2 * xor_or(a \div 2, b \div 2)

\* JavaScript a ^ b on non-negative 32-bit operands.
RECURSIVE xor(_, _)
xor(a, b) ==
  IF a = 0 THEN b
  ELSE IF b = 0 THEN a
  ELSE (((a % 2) + (b % 2)) % 2) + 2 * xor(a \div 2, b \div 2)

\* JavaScript a >> n on a non-negative 32-bit operand.
shr(a, n) == a \div (2 ^ n)

\* JavaScript a & 0xFF.
and255(a) == a % 256

\* Buffer.alloc(n): n zero bytes.
alloc(n) == [i \in 1..n |-> 0]

writeUInt8(buf, v, off) == [buf EXCEPT ![off + 1] = v]

writeUInt16BE(buf, v, off) ==
  [buf EXCEPT ![off + 1] = (v \div 256) % 256, ![off + 2] = v % 256]

writeUInt32BE(buf, v, off) ==
  [buf EXCEPT ![off + 1] = (v \div 16777216) % 256,
              ![off + 2] = (v \div 65536) % 256,
              ![off + 3] = (v \div 256) % 256,
              ![off + 4] = v % 256]

readUInt16BE(buf, off) == buf[off + 1] * 256 + buf[off + 2]

readUInt32BE(buf, off) ==
  buf[off + 1] * 16777216 + buf[off + 2] * 65536 + buf[off + 3] * 256 + buf[off + 4]

\* buf.slice(a, b) / buf.subarray(a, b), end clamped to the buffer length.
slice(buf, a, b) == SubSeq(buf, a + 1, IF b > Len(buf) THEN Len(buf) ELSE b)

\* src.copy(dst, off): bytes of src over dst starting at off, dst keeps its length.
copy(src, dst, off) ==
  [i \in 1..Len(dst) |->
     IF i > off /\ i <= off + Len(src) THEN src[i - off] ELSE dst[i]]

\* Buffer.concat(list)
RECURSIVE concat(_)
concat(list) == IF list = <<>> THEN <<>> ELSE Head(list) \o concat(Tail(list))

\* ------------------------------------------------------------------------
\* address.split('.').map(Number)
\* ------------------------------------------------------------------------
\* A string is a sequence of one-character strings.
digitValue(c) ==
  CASE c = "0" -> 0 [] c = "1" -> 1 [] c = "2" -> 2 [] c = "3" -> 3
    [] c = "4" -> 4 [] c = "5" -> 5 [] c = "6" -> 6 [] c = "7" -> 7
    [] c = "8" -> 8 [] c = "9" -> 9

\* Number(s) for a string of decimal digits (Number("") is 0).
RECURSIVE Number(_)
Number(s) ==
  IF s = <<>> THEN 0
  ELSE Number(SubSeq(s, 1, Len(s) - 1)) * 10 + digitValue(s[Len(s)])

\* s.split('.')
RECURSIVE split(_, _)
split(s, cur) ==
  IF s = <<>> THEN <<cur>>
  ELSE IF Head(s) = "." THEN <<cur>> \o split(Tail(s), <<>>)
  ELSE split(Tail(s), Append(cur, Head(s)))

\* Buffer.from(address.split('.').map(Number)): one byte per element.
addrBytesOf(address) ==
  LET parts == split(address, <<>>)
  IN [i \in 1..Len(parts) |-> and255(Number(parts[i]))]

\* ------------------------------------------------------------------------
\* Codec: decoder, XOR-MAPPED-ADDRESS encoder, response assembler
\* ------------------------------------------------------------------------
\* The `null` result of parseStunMessage.
null == [ok |-> FALSE]

\* Mutant of parseStunMessage: the length test only rejects truncated datagrams.
parseStunMessage_allowPadding(data) ==
  IF Len(data) < 20 THEN null
  ELSE LET type == readUInt16BE(data, 0)
           length == readUInt16BE(data, 2)
           cookie == readUInt32BE(data, 4)
           transactionId == slice(data, 8, 20)
       IN IF cookie # STUN_MAGIC_COOKIE THEN null
          ELSE IF Len(data) < 20 + length THEN null
          ELSE [ok |-> TRUE, type |-> type, length |-> length,
                transactionId |-> transactionId,
                attributes |-> slice(data, 20, Len(data))]

parseStunMessage(data) ==
  IF Len(data) < 20 THEN null
  ELSE LET type == readUInt16BE(data, 0)
           length == readUInt16BE(data, 2)
           cookie == readUInt32BE(data, 4)
           transactionId == slice(data, 8, 20)
       IN IF cookie # STUN_MAGIC_COOKIE THEN null
          ELSE IF Len(data) # 20 + length THEN null
          ELSE [ok |-> TRUE, type |-> type, length |-> length,
                transactionId |-> transactionId,
                attributes |-> slice(data, 20, Len(data))]

\* for (i = 0; i < 4; i++) addrBuf[i] ^= (STUN_MAGIC_COOKIE >> (24 - i * 8)) & 0xFF
xorMagicCookie(addrBuf) ==
  [k \in 1..Len(addrBuf) |->
     IF k <= 4
     THEN xor(addrBuf[k], and255(shr(STUN_MAGIC_COOKIE, 24 - (k - 1) * 8)))
     ELSE addrBuf[k]]

\* Mutant of xorTransactionIdFirst4: the loop stops one byte early.
RECURSIVE xorTransactionIdFirst4_stopAt3(_, _, _)
xorTransactionIdFirst4_stopAt3(addrBuf, transactionId, i) ==
  IF i < Len(transactionId) /\ i < 3
  THEN xorTransactionIdFirst4_stopAt3(
         [addrBuf EXCEPT ![i + 1] = xor(@, transactionId[i + 1])],
         transactionId, i + 1)
  ELSE addrBuf

\* dgram programs:
\* for (i = 0; i < transactionId.length && i < 4; i++) addrBuf[i] ^= transactionId[i]
RECURSIVE xorTransactionIdFirst4(_, _, _)
xorTransactionIdFirst4(addrBuf, transactionId, i) ==
  IF i < Len(transactionId) /\ i < 4
  THEN xorTransactionIdFirst4(
         [addrBuf EXCEPT ![i + 1] = xor(@, transactionId[i + 1])],
         transactionId, i + 1)
  ELSE addrBuf

\* Bun program:
\* for (i = 0; i < transactionId.length; i++) addrBuf[i % 4] ^= transactionId[i]
RECURSIVE xorTransactionIdCyclic(_, _, _)
xorTransactionIdCyclic(addrBuf, transactionId, i) ==
  IF i < Len(transactionId)
  THEN xorTransactionIdCyclic(
         [addrBuf EXCEPT ![(i % 4) + 1] = xor(@, transactionId[i + 1])],
         transactionId, i + 1)
  ELSE addrBuf

\* createXorMappedAddress of the dgram programs (12-byte buffer, fixed offsets).
createXorMappedAddressDgram(family, port, address, transactionId) ==
  LET b0 == alloc(12)
      b1 == writeUInt16BE(b0, STUN_ATTR_XOR_MAPPED_ADDRESS, 0)
      b2 == writeUInt16BE(b1, 8, 2)
      b3 == writeUInt8(b2, 0, 4)
      b4 == writeUInt8(b3, family, 5)
      xorPort == xor(port, shr(STUN_MAGIC_COOKIE, 16))
      b5 == writeUInt16BE(b4, xorPort, 6)
      addrBuf == xorTransactionIdFirst4(
                   xorMagicCookie(addrBytesOf(address)), transactionId, 0)
  IN copy(addrBuf, b5, 8)

\* createXorMappedAddress of the Bun program (20-byte buffer, running offset).
createXorMappedAddressBun(family, port, address, transactionId) ==
  LET b0 == alloc(20)
      b1 == writeUInt16BE(b0, STUN_ATTR_XOR_MAPPED_ADDRESS, 0)
      offset0 == 4
      b2 == writeUInt8(b1, 0, offset0)
      b3 == writeUInt8(b2, family, offset0 + 1)
      offset1 == offset0 + 2
      xorPort == xor(port, shr(STUN_MAGIC_COOKIE, 16))
      b4 == writeUInt16BE(b3, xorPort, offset1)
      offset2 == offset1 + 2
      addrBuf == xorTransactionIdCyclic(
                   xorMagicCookie(addrBytesOf(address)), transactionId, 0)
      b5 == copy(addrBuf, b4, offset2)
      attrLength == offset2 + 4 - 4
      b6 == writeUInt16BE(b5, attrLength, 2)
  IN slice(b6, 0, offset2 + 4)

createXorMappedAddress(v, family, port, address, transactionId) ==
  IF v = "bun"
  THEN createXorMappedAddressBun(family, port, address, transactionId)
  ELSE createXorMappedAddressDgram(family, port, address, transactionId)

\* Mutant of createStunResponse: the length field counts the header too.
createStunResponse_lengthWithHeader(type, transactionId, attributes) ==
  LET attrBuf == concat(attributes)
      length == Len(attrBuf) + 20
      h0 == alloc(20)
      h1 == writeUInt16BE(h0, type, 0)
      h2 == writeUInt16BE(h1, length, 2)
      h3 == writeUInt32BE(h2, STUN_MAGIC_COOKIE, 4)
      header == copy(transactionId, h3, 8)
  IN header \o attrBuf

createStunResponse(type, transactionId, attributes) ==
  LET attrBuf == concat(attributes)
      length == Len(attrBuf)
      h0 == alloc(20)
      h1 == writeUInt16BE(h0, type, 0)
      h2 == writeUInt16BE(h1, length, 2)
      h3 == writeUInt32BE(h2, STUN_MAGIC_COOKIE, 4)
      header == copy(transactionId, h3, 8)
  IN header \o attrBuf

\* ------------------------------------------------------------------------
\* Admission control
\* ------------------------------------------------------------------------
\* The limiter state is a record [timestamps, isPaused, timers]:
\*   timestamps : RateLimiter.timestamps / requestTimestamps
\*   isPaused   : RateLimiter.isPaused / isPaused
\*   timers     : the pending setTimeout callbacks, each by its due time

\* Mutant of setTimeout: the delay is ignored, the callback is due at once.
setTimeout_noDelay(st, t, delay) == [st EXCEPT !.timers = Append(@, t)]

\* setTimeout(callback, delay) called at time t: the callback is due at t + delay.
setTimeout(st, t, delay) == [st EXCEPT !.timers = Append(@, t + delay)]

\* ts => now - ts < timeWindow
prune(timestamps, t) == SelectSeq(timestamps, LAMBDA ts : t - ts < TimeWindow)

\* Mutant of triggerPause: the pause is set but no un-pause is scheduled.
triggerPause_noTimer(st, t) == [st EXCEPT !.isPaused = TRUE]

\* RateLimiter.triggerPause
triggerPause(st, t) ==
  setTimeout([st EXCEPT !.isPaused = TRUE], t, PauseDuration)

\* Mutant of check: the `return false` after triggerPause() is missing.
check_tripAdmits(st, t) ==
  IF st.isPaused THEN [st |-> st, ret |-> FALSE]
  ELSE LET st1 == [st EXCEPT !.timestamps = Append(prune(@, t), t)]
       IN IF Len(st1.timestamps) > MaxRequests
          THEN [st |-> triggerPause(st1, t), ret |-> TRUE]
          ELSE [st |-> st1, ret |-> TRUE]

\* Mutant of check: the isPaused test at the top is missing.
check_noPausedGuard(st, t) ==
  LET st1 == [st EXCEPT !.timestamps = Append(prune(@, t), t)]
  IN IF Len(st1.timestamps) > MaxRequests
     THEN [st |-> triggerPause(st1, t), ret |-> FALSE]
     ELSE [st |-> st1, ret |-> TRUE]

\* Mutant of check: the limit test is >= instead of >.
check_offByOne(st, t) ==
  IF st.isPaused THEN [st |-> st, ret |-> FALSE]
  ELSE LET st1 == [st EXCEPT !.timestamps = Append(prune(@, t), t)]
       IN IF Len(st1.timestamps) >= MaxRequests
          THEN [st |-> triggerPause(st1, t), ret |-> FALSE]
          ELSE [st |-> st1, ret |-> TRUE]

\* RateLimiter.check, with now = t
check(st, t) ==
  IF st.isPaused THEN [st |-> st, ret |-> FALSE]
  ELSE LET st1 == [st EXCEPT !.timestamps = Append(prune(@, t), t)]
       IN IF Len(st1.timestamps) > MaxRequests
          THEN [st |-> triggerPause(st1, t), ret |-> FALSE]
          ELSE [st |-> st1, ret |-> TRUE]

\* Mutant of checkRateLimit: the tripping timestamp is dropped when the pause starts.
checkRateLimit_clearOnTrip(st, t) ==
  LET st1 == [st EXCEPT !.timestamps = Append(prune(@, t), t)]
  IN IF Len(st1.timestamps) > MaxRequests /\ ~st1.isPaused
     THEN [st |-> setTimeout([st1 EXCEPT !.isPaused = TRUE, !.timestamps = <<>>],
                             t, PauseDuration),
           ret |-> FALSE]
     ELSE [st |-> st1, ret |-> TRUE]

\* checkRateLimit of the Bun program, with now = t
checkRateLimit(st, t) ==
  LET st1 == [st EXCEPT !.timestamps = Append(prune(@, t), t)]
  IN IF Len(st1.timestamps) > MaxRequests /\ ~st1.isPaused
     THEN [st |-> setTimeout([st1 EXCEPT !.isPaused = TRUE], t, PauseDuration),
           ret |-> FALSE]
     ELSE [st |-> st1, ret |-> TRUE]

\* Mutant of gate: the Bun handler tests !checkRateLimit() || isPaused, so
\* checkRateLimit runs before isPaused is looked at.
gate_callBeforePausedTest(v, st, t) ==
  IF v = "bun"
  THEN LET r == checkRateLimit(st, t)
       IN [st |-> r.st, ret |-> (r.ret /\ ~r.st.isPaused)]
  ELSE check(st, t)

\* Mutant of gate: the Bun handler calls checkRateLimit without testing isPaused.
gate_noPausedTest(v, st, t) ==
  IF v = "bun" THEN checkRateLimit(st, t) ELSE check(st, t)

\* The admission test at the top of the datagram handler; ret = TRUE admits.
\*   dgram: if (!limiter.check()) return;
\*   bun:   if (isPaused || !checkRateLimit()) return;
gate(v, st, t) ==
  IF v = "bun"
  THEN IF st.isPaused THEN [st |-> st, ret |-> FALSE] ELSE checkRateLimit(st, t)
  ELSE check(st, t)

\* Mutant of unpause: the flag is cleared but the timestamps are kept.
unpause_keepTimestamps(st) == [st EXCEPT !.isPaused = FALSE]

\* The setTimeout callback: isPaused = false; timestamps = [].
unpause(st) == [st EXCEPT !.isPaused = FALSE, !.timestamps = <<>>]

\* ------------------------------------------------------------------------
\* Datagram handler: server.on('message') / socket.data
\* ------------------------------------------------------------------------
\* Mutant of onMessage: the datagram is decoded first and the limiter is
\* consulted only for valid Binding Requests.
onMessage_parseFirst(v, st, t, data, rinfo) ==
  LET parsed == parseStunMessage(data)
  IN IF ~parsed.ok \/ parsed.type # STUN_BINDING_REQUEST
     THEN [st |-> st, admit |-> FALSE, sent |-> <<>>]
     ELSE LET g == gate(v, st, t)
          IN IF ~g.ret THEN [st |-> g.st, admit |-> FALSE, sent |-> <<>>]
             ELSE [st |-> g.st, admit |-> TRUE,
                   sent |-> <<createStunResponse(STUN_BINDING_RESPONSE,
                                parsed.transactionId,
                                <<createXorMappedAddress(v, 1, rinfo.port,
                                    rinfo.address, parsed.transactionId)>>)>>]

\* Mutant of onMessage: the message type is not tested.
onMessage_anyType(v, st, t, data, rinfo) ==
  LET g == gate(v, st, t)
  IN IF ~g.ret THEN [st |-> g.st, admit |-> FALSE, sent |-> <<>>]
     ELSE LET parsed == parseStunMessage(data)
          IN IF ~parsed.ok
             THEN [st |-> g.st, admit |-> TRUE, sent |-> <<>>]
             ELSE [st |-> g.st, admit |-> TRUE,
                   sent |-> <<createStunResponse(STUN_BINDING_RESPONSE,
                                parsed.transactionId,
                                <<createXorMappedAddress(v, 1, rinfo.port,
                                    rinfo.address, parsed.transactionId)>>)>>]

\* Result: the limiter state after the handler, whether the datagram was
\* admitted, and the responses handed to the socket.
onMessage(v, st, t, data, rinfo) ==
  LET g == gate(v, st, t)
  IN IF ~g.ret THEN [st |-> g.st, admit |-> FALSE, sent |-> <<>>]
     ELSE LET parsed == parseStunMessage(data)
          IN IF ~parsed.ok \/ parsed.type # STUN_BINDING_REQUEST
             THEN [st |-> g.st, admit |-> TRUE, sent |-> <<>>]
             ELSE LET family == 1
                      xorAttr == createXorMappedAddress(v, family, rinfo.port,
                                   rinfo.address, parsed.transactionId)
                      response == createStunResponse(STUN_BINDING_RESPONSE,
                                    parsed.transactionId, <<xorAttr>>)
                  IN [st |-> g.st, admit |-> TRUE, sent |-> <<response>>]

\* ------------------------------------------------------------------------
\* Inputs: datagrams and senders
\* ------------------------------------------------------------------------
TransactionIdA == <<0, 17, 34, 51, 68, 85, 102, 119, 136, 153, 170, 187>>
TransactionIdB == <<255, 254, 1, 128, 9, 8, 7, 6, 5, 4, 3, 2>>

\* A datagram with the given header fields followed by body.
datagram(type, length, cookie, transactionId, body) ==
  copy(transactionId,
       writeUInt32BE(writeUInt16BE(writeUInt16BE(alloc(20), type, 0), length, 2),
                     cookie, 4),
       8) \o body

BindingRequest == datagram(STUN_BINDING_REQUEST, 0, STUN_MAGIC_COOKIE, TransactionIdA, <<>>)

Datagrams ==
  { BindingRequest,
    datagram(STUN_BINDING_REQUEST, 4, STUN_MAGIC_COOKIE, TransactionIdB, <<128, 34, 0, 0>>),
    SubSeq(BindingRequest, 1, 19),
    <<>>,
    datagram(STUN_BINDING_REQUEST, 0, STUN_MAGIC_COOKIE + 1, TransactionIdA, <<>>),
    datagram(STUN_BINDING_REQUEST, 0, STUN_MAGIC_COOKIE, TransactionIdA, <<0, 0, 0, 0>>),
    datagram(STUN_BINDING_REQUEST, 4, STUN_MAGIC_COOKIE, TransactionIdA, <<>>),
    datagram(STUN_BINDING_RESPONSE, 0, STUN_MAGIC_COOKIE, TransactionIdA, <<>>) }

\* rinfo / socket.remoteAddress, socket.remotePort
Senders ==
  { [address |-> <<"2","0","3",".","0",".","1","1","3",".","7">>, port |-> 54321],
    [address |-> <<"1","0",".","0",".","0",".","1">>, port |-> 8466] }

NoSender == [address |-> <<>>, port |-> 0]

\* ------------------------------------------------------------------------
\* State
\* ------------------------------------------------------------------------
VARIABLES
  variant,      \* which program runs: "dgram" or "bun"
  now,          \* Date.now()
  timestamps,   \* RateLimiter.timestamps / requestTimestamps
  isPaused,     \* RateLimiter.isPaused / isPaused
  timers,       \* due times of the pending setTimeout callbacks
  event,        \* the callback the event loop ran last: "start", "message", "timeout"
  msg,          \* the last datagram delivered to the handler
  rinfo,        \* its sender
  msgPaused,    \* isPaused as the handler found it on that datagram's arrival
  admit,        \* whether the admission test let that datagram through
  sent,         \* the responses the handler sent for that datagram
  nChecks,      \* history: datagrams handled so far (counted up to MaxRequests + 2)
  firstCheck,   \* history: arrival time of the first datagram (-1 before it)
  pausedAt,     \* history: time of the latest Open -> Paused transition (-1 before it)
  admitLog,     \* history: arrival times of the admitted datagrams younger than TimeWindow
  tripFrom,     \* history: sender of the datagram that tripped the limiter (NoSender
                \* while the controller is Open)
  answered,     \* history: whether any response has been sent so far
  twin,         \* the other program's limiter fed the same arrivals and timer
                \* firings: its timestamps, isPaused, timers and last decision
  enc,          \* the encoder harness: one call of createXorMappedAddress and a second
                \* call on an input that differs in one byte (idle while the server runs)
  dec           \* the decoder harness: one call of parseStunMessage (idle while the
                \* server runs)

limVars == <<timestamps, isPaused, timers>>
msgVars == <<event, msg, rinfo, msgPaused, admit, sent>>
histVars == <<nChecks, firstCheck, pausedAt, admitLog, tripFrom, answered, twin>>
codecVars == <<enc, dec>>
vars == <<variant, now, limVars, msgVars, histVars, codecVars>>

\* The limiter state as the record the operators work on.
lim == [timestamps |-> timestamps, isPaused |-> isPaused, timers |-> timers]

\* The program that variant does not run.
otherVariant(v) == IF v = "bun" THEN "dgram" ELSE "bun"

\* The limiter state of the other program.
twinLim == [timestamps |-> twin.timestamps, isPaused |-> twin.isPaused,
            timers |-> twin.timers]

EncIdle == [phase |-> "idle"]

ServerInit ==
  /\ variant \in Variants
  /\ now = 0
  /\ timestamps = <<>>
  /\ isPaused = FALSE
  /\ timers = <<>>
  /\ event = "start"
  /\ msg = <<>>
  /\ rinfo = NoSender
  /\ msgPaused = FALSE
  /\ admit = FALSE
  /\ sent = <<>>
  /\ nChecks = 0
  /\ firstCheck = -1
  /\ pausedAt = -1
  /\ admitLog = <<>>
  /\ tripFrom = NoSender
  /\ answered = FALSE
  /\ twin = [timestamps |-> <<>>, isPaused |-> FALSE, timers |-> <<>>, admit |-> FALSE]

DecIdle == [phase |-> "idle"]

Init == ServerInit /\ enc = EncIdle /\ dec = DecIdle

\* ------------------------------------------------------------------------
\* Actions
\* ------------------------------------------------------------------------
\* A datagram arrives and its handler runs to completion at time now.
Message(data, from) ==
  /\ now <= MaxTime
  /\ LET h == onMessage(variant, lim, now, data, from)
     IN /\ timestamps' = h.st.timestamps
        /\ isPaused' = h.st.isPaused
        /\ timers' = h.st.timers
        /\ admit' = h.admit
        /\ sent' = h.sent
        /\ pausedAt' = IF h.st.isPaused /\ ~isPaused THEN now ELSE pausedAt
        /\ admitLog' = IF h.admit THEN Append(admitLog, now) ELSE admitLog
        /\ tripFrom' = IF h.st.isPaused /\ ~isPaused THEN from ELSE tripFrom
        /\ answered' = (answered \/ h.sent # <<>>)
  /\ event' = "message"
  /\ msg' = data
  /\ rinfo' = from
  /\ msgPaused' = isPaused
  /\ nChecks' = IF nChecks < MaxRequests + 2 THEN nChecks + 1 ELSE nChecks
  /\ firstCheck' = IF nChecks = 0 THEN now ELSE firstCheck
  /\ LET g == gate(otherVariant(variant), twinLim, now)
     IN twin' = [timestamps |-> g.st.timestamps, isPaused |-> g.st.isPaused,
                 timers |-> g.st.timers, admit |-> g.ret]
  /\ UNCHANGED <<variant, now, codecVars>>

\* A pending timer whose delay has elapsed runs its callback.
Timeout(i) ==
  /\ i \in 1..Len(timers)
  /\ timers[i] <= now
  /\ LET st == unpause(lim)
     IN /\ timestamps' = st.timestamps
        /\ isPaused' = st.isPaused
  /\ timers' = SubSeq(timers, 1, i - 1) \o SubSeq(timers, i + 1, Len(timers))
  /\ event' = "timeout"
  /\ tripFrom' = NoSender
  /\ twin' = IF i \in 1..Len(twin.timers)
             THEN LET st == unpause(twinLim)
                  IN [twin EXCEPT !.timestamps = st.timestamps,
                                  !.isPaused = st.isPaused,
                                  !.timers = SubSeq(@, 1, i - 1) \o SubSeq(@, i + 1, Len(@))]
             ELSE twin
  /\ UNCHANGED <<variant, now, msg, rinfo, msgPaused, admit, sent,
                 nChecks, firstCheck, pausedAt, admitLog, answered, codecVars>>

\* Time passes.  Datagrams arrive up to MaxTime; the clock runs on after that
\* only until the pending timers are due.
Tick ==
  /\ \/ now < MaxTime
     \/ \E i \in 1..Len(timers) : timers[i] > now
  /\ now' = now + 1
  /\ admitLog' = SelectSeq(admitLog, LAMBDA ts : (now + 1) - ts < TimeWindow)
  /\ UNCHANGED <<variant, limVars, msgVars, nChecks, firstCheck, pausedAt,
                 tripFrom, answered, twin, codecVars>>

Next ==
  \/ \E data \in Datagrams, from \in Senders : Message(data, from)
  \/ \E i \in 1..Len(timers) : Timeout(i)
  \/ Tick

Spec == Init /\ [][Next]_vars

\* The event loop runs every due timer, and time passes.
LiveSpec == Spec /\ WF_vars(Tick) /\ WF_vars(\E i \in 1..Len(timers) : Timeout(i))

\* ========================================================================
\* Properties of the admission controller and the handler
\* ========================================================================

\* C1: from the initial state, in a burst of MaxRequests + 1 consecutive
\* checks that all fall within one time window, the first MaxRequests checks
\* admit and the (MaxRequests + 1)th rejects and leaves the controller Paused.
C1_BurstTripsLimiter ==
  [][ (nChecks' # nChecks /\ now' - firstCheck' < TimeWindow) =>
        /\ (nChecks' <= MaxRequests => admit' /\ ~isPaused')
        /\ (nChecks' = MaxRequests + 1 => ~admit' /\ isPaused') ]_vars

C1_Witness ==
  /\ nChecks = MaxRequests + 1
  /\ event = "message"
  /\ ~admit
  /\ isPaused
  /\ pausedAt = now
  /\ now - firstCheck < TimeWindow
  /\ now > firstCheck

\* C2: while the controller is Paused every admission check rejects the
\* datagram: a datagram that arrived in Paused was not admitted and got no
\* response, any check made in a Paused state rejects, and the controller is
\* Paused at every time less than PauseDuration after the pause was triggered.
C2_PausedRejects ==
  /\ msgPaused => ~admit /\ sent = <<>>
  /\ isPaused => \A t \in now..(MaxTime + PauseDuration) : ~gate(variant, lim, t).ret
  /\ (pausedAt >= 0 /\ now - pausedAt < PauseDuration) => isPaused

C2_Witness ==
  /\ event = "message"
  /\ msgPaused
  /\ isPaused
  /\ now > pausedAt
  /\ now - pausedAt < PauseDuration

\* C3: the controller leaves Paused only in a step of the scheduled un-pause
\* callback, never in a datagram handler, and never before PauseDuration has
\* elapsed since it entered Paused.
C3_OnlyTimerUnpauses ==
  [][ (isPaused /\ ~isPaused') =>
        /\ event' = "timeout"
        /\ UNCHANGED <<msg, rinfo, msgPaused, admit, sent, nChecks>>
        /\ Len(timers') < Len(timers)
        /\ now' - pausedAt >= PauseDuration ]_vars

C3_Witness ==
  /\ event = "timeout"
  /\ ~isPaused
  /\ msgPaused
  /\ now - pausedAt >= PauseDuration

\* C4: whenever the controller is Paused it is eventually Open again, also
\* when no datagram arrives during the cooldown.
C4_PauseEnds == isPaused ~> ~isPaused

C4_Witness ==
  /\ event = "timeout"
  /\ ~isPaused
  /\ ~msgPaused
  /\ pausedAt >= 0
  /\ timers = <<>>

\* C5: right after the un-pause callback the controller is Open with an empty
\* timestamp sequence, and the next check admits and leaves exactly its own
\* timestamp in the sequence.
C5_FreshAfterUnpause ==
  [][ /\ (event' = "timeout" => ~isPaused' /\ timestamps' = <<>>)
      /\ (event = "timeout" /\ event' = "message") =>
            admit' /\ ~isPaused' /\ timestamps' = <<now'>> ]_vars

C5_Witness ==
  /\ event = "message"
  /\ admit
  /\ ~msgPaused
  /\ ~isPaused
  /\ pausedAt >= 0
  /\ firstCheck = pausedAt
  /\ now = pausedAt + PauseDuration
  /\ timestamps = <<now>>

\* C6 as stated: whenever paused is true the timestamp sequence is empty.
C6_EmptyWhilePaused == isPaused => timestamps = <<>>

\* C6 amended: whenever paused is true the timestamp sequence holds exactly
\* the MaxRequests + 1 timestamps recorded up to and including the check that
\* tripped the limiter; checks made while paused add none.
C6_FrozenWhilePaused ==
  isPaused =>
    /\ Len(timestamps) = MaxRequests + 1
    /\ timestamps[MaxRequests + 1] = pausedAt
    /\ \A k \in 1..Len(timestamps) :
         timestamps[k] <= pausedAt /\ pausedAt - timestamps[k] < TimeWindow

C6_Witness ==
  /\ isPaused
  /\ msgPaused
  /\ event = "message"
  /\ now > pausedAt
  /\ Len(timestamps) = MaxRequests + 1

\* A datagram that decodes as a Binding Request, read off its bytes: at least
\* 20 bytes, type 0x0001, magic cookie 21 12 A4 42, length = 20 + bytes 2-3.
IsBindingRequest(d) ==
  /\ Len(d) >= 20
  /\ d[1] = 0 /\ d[2] = 1
  /\ d[5] = 33 /\ d[6] = 18 /\ d[7] = 164 /\ d[8] = 66
  /\ Len(d) = 20 + 256 * d[3] + d[4]

\* C7: a response is sent for a datagram if and only if the datagram was
\* admitted, decoded successfully and has message type 0x0001; at most one
\* response is sent per datagram.
C7_ResponseIffAdmittedBinding ==
  /\ Len(sent) <= 1
  /\ Len(sent) = 1 <=> (event # "start" /\ admit /\ IsBindingRequest(msg))

C7_Witness ==
  /\ event = "message"
  /\ admit
  /\ Len(sent) = 1
  /\ Len(msg) = 24

\* C8: the number of datagrams admitted within any interval of length
\* TimeWindow is at most MaxRequests, also across pause/resume cycles.
C8_AtMostMaxPerWindow == Len(admitLog) <= MaxRequests

\* ========================================================================
\* The XOR-MAPPED-ADDRESS encoder as a function of its inputs
\* ========================================================================
\* The dotted-decimal string the socket layer reports for an IPv4 address.
digitChar(n) == <<"0", "1", "2", "3", "4", "5", "6", "7", "8", "9">>[n + 1]

RECURSIVE decimal(_)
decimal(n) ==
  IF n < 10 THEN <<digitChar(n)>>
  ELSE Append(decimal(n \div 10), digitChar(n % 10))

formatAddress(octets) ==
  decimal(octets[1]) \o <<".">> \o decimal(octets[2]) \o <<".">> \o
  decimal(octets[3]) \o <<".">> \o decimal(octets[4])

EncPorts == {0, 8466, 54321, 65535}
EncOctets == { <<0, 0, 0, 0>>, <<33, 18, 164, 66>>, <<203, 0, 113, 7>>, <<255, 255, 255, 255>> }
EncTransactionIds == { [k \in 1..12 |-> 0], TransactionIdA, [k \in 1..12 |-> 255] }
EncBytes == {0, 1, 128, 255}

\* The 18 input bytes: 0-1 the port (high, low), 2-5 the address octets,
\* 6-17 the transaction id.
inputByte(in, pos) ==
  IF pos = 0 THEN in.port \div 256
  ELSE IF pos = 1 THEN in.port % 256
  ELSE IF pos <= 5 THEN in.octets[pos - 1]
  ELSE in.transactionId[pos - 5]

\* The input with byte pos replaced by val.
withByte(in, pos, val) ==
  IF pos = 0 THEN [in EXCEPT !.port = val * 256 + (in.port % 256)]
  ELSE IF pos = 1 THEN [in EXCEPT !.port = (in.port \div 256) * 256 + val]
  ELSE IF pos <= 5 THEN [in EXCEPT !.octets[pos - 1] = val]
  ELSE [in EXCEPT !.transactionId[pos - 5] = val]

EncInputs ==
  { [port |-> p, octets |-> o, transactionId |-> t] :
      p \in EncPorts, o \in EncOctets, t \in EncTransactionIds }

\* The encoder starts with an input and a one-byte change of it to apply.
EncInit ==
  /\ ServerInit
  /\ dec = DecIdle
  /\ \E in \in EncInputs, pos \in 0..17, val \in EncBytes :
       /\ inputByte(in, pos) # val
       /\ enc = [phase |-> "in", a |-> in, pos |-> pos, b |-> withByte(in, pos, val)]

encode(v, in) ==
  createXorMappedAddress(v, 1, in.port, formatAddress(in.octets), in.transactionId)

\* createXorMappedAddress is called on the input and on the changed input.
Encode ==
  /\ enc.phase = "in"
  /\ enc' = [phase |-> "out", a |-> enc.a, pos |-> enc.pos, b |-> enc.b,
             outA |-> encode(variant, enc.a), outB |-> encode(variant, enc.b)]
  /\ UNCHANGED <<variant, now, limVars, msgVars, histVars, dec>>

\* The encoder is applied a second time, to the port and address it produced,
\* with the same transaction id.
RoundTrip ==
  /\ enc.phase = "out"
  /\ enc' = [phase |-> "back", a |-> enc.a, pos |-> enc.pos, b |-> enc.b,
             outA |-> enc.outA, outB |-> enc.outB,
             back |-> encode(variant,
                             [port |-> readUInt16BE(enc.outA, 6),
                              octets |-> slice(enc.outA, 8, 12),
                              transactionId |-> enc.a.transactionId])]
  /\ UNCHANGED <<variant, now, limVars, msgVars, histVars, dec>>

EncNext == Encode \/ RoundTrip

EncSpec == EncInit /\ [][EncNext]_vars

\* The magic cookie 0x2112A442, most significant byte first.
CookieBytes == <<33, 18, 164, 66>>

\* C9: in every implementation of the encoder, for i in 0..3,
\* xorAddress[i] = ipv4Octets[i] XOR cookie byte i XOR transactionId[i];
\* transaction-id bytes 4..11 do not contribute.
C9_AddressXorFirstFour ==
  enc.phase = "out" =>
    /\ Len(enc.outA) = 12
    /\ \A i \in 0..3 :
         enc.outA[9 + i] =
           xor(xor(enc.a.octets[i + 1], CookieBytes[i + 1]), enc.a.transactionId[i + 1])

\* C10 as stated: two inputs that differ in exactly one byte (of the port, the
\* address or the transaction id) produce different attributes.
C10_AnyByteChangesOutput ==
  enc.phase = "out" => enc.outA # enc.outB

\* C10 amended: two inputs that differ in exactly one byte of the port, of the
\* address or of transaction-id bytes 0..3 produce different 12-byte attributes.
C10_KeyByteChangesOutput ==
  (enc.phase = "out" /\ enc.pos <= 9) =>
    /\ Len(enc.outA) = 12
    /\ Len(enc.outB) = 12
    /\ enc.outA # enc.outB

C10_Witness ==
  /\ enc.phase = "out"
  /\ enc.pos = 9
  /\ enc.a.transactionId # enc.b.transactionId
  /\ enc.outA # enc.outB
  /\ variant = "dgram"

\* ========================================================================
\* The decoder as a function of the datagram
\* ========================================================================
DecTypes == {1, 257, 256}
DecLengths == {0, 1, 4, 260}
DecCookies == { STUN_MAGIC_COOKIE, STUN_MAGIC_COOKIE + 1, STUN_MAGIC_COOKIE - 16777216,
                STUN_MAGIC_COOKIE + 65536, STUN_MAGIC_COOKIE + 256, 0 }
DecTransactionIds == {TransactionIdA, TransactionIdB}
DecBodyLengths == {0, 1, 4, 5, 260}
DecCuts == {0, 1, 7, 19}

\* Whole datagrams (header and a body of any of the lengths, declared or not)
\* and datagrams cut short inside the header.
DecInputs ==
  { datagram(ty, len, ck, t, [k \in 1..n |-> (k * 7) % 256]) :
      ty \in DecTypes, len \in DecLengths, ck \in DecCookies,
      t \in DecTransactionIds, n \in DecBodyLengths }
  \cup
  { SubSeq(datagram(ty, 0, ck, TransactionIdA, <<>>), 1, cut) :
      ty \in DecTypes, ck \in DecCookies, cut \in DecCuts }

DecInit ==
  /\ ServerInit
  /\ enc = EncIdle
  /\ \E d \in DecInputs : dec = [phase |-> "in", data |-> d]

\* parseStunMessage is called on the datagram.
Decode ==
  /\ dec.phase = "in"
  /\ dec' = [phase |-> "out", data |-> dec.data, parsed |-> parseStunMessage(dec.data)]
  /\ UNCHANGED <<variant, now, limVars, msgVars, histVars, enc>>

DecNext == Decode

DecSpec == DecInit /\ [][DecNext]_vars

\* A datagram the decoder must accept, read off its bytes: at least 20 bytes,
\* bytes 4-7 are 21 12 A4 42, and the length is 20 plus the uint16 in bytes 2-3.
IsWellFormed(d) ==
  /\ Len(d) >= 20
  /\ d[5] = 33 /\ d[6] = 18 /\ d[7] = 164 /\ d[8] = 66
  /\ Len(d) = 20 + 256 * d[3] + d[4]

\* C11: decoding accepts a datagram if and only if it has at least 20 bytes,
\* the magic cookie in bytes 4-7 and length 20 + the uint16 in bytes 2-3; on
\* acceptance transactionId is bytes 8..19 and attributes is datagram[20:]; a
\* datagram shorter than 20 bytes is rejected.
C11_DecodeAcceptsWellFormed ==
  dec.phase = "out" =>
    /\ dec.parsed.ok <=> IsWellFormed(dec.data)
    /\ Len(dec.data) < 20 => dec.parsed = [ok |-> FALSE]
    /\ dec.parsed.ok =>
         /\ Len(dec.parsed.transactionId) = 12
         /\ \A k \in 1..12 : dec.parsed.transactionId[k] = dec.data[8 + k]
         /\ Len(dec.parsed.attributes) = Len(dec.data) - 20
         /\ \A k \in 1..(Len(dec.data) - 20) : dec.parsed.attributes[k] = dec.data[20 + k]
         /\ dec.parsed.type = 256 * dec.data[1] + dec.data[2]

C11_Witness ==
  /\ dec.phase = "out"
  /\ dec.parsed.ok
  /\ Len(dec.data) = 280
  /\ dec.parsed.transactionId = TransactionIdB

\* ========================================================================
\* Properties of the response and of the admission controller, continued
\* ========================================================================

\* C12: the response to an admitted valid Binding Request is a 32-byte
\* datagram: header type 0x0101, body length 12, magic cookie 21 12 A4 42 and
\* the request's transaction id, then one XOR-MAPPED-ADDRESS attribute with
\* type 0x0020, value length 8, reserved 0x00, family 0x01 and
\* xorPort = port XOR 0x2112.
C12_ResponseLayout ==
  Len(sent) = 1 =>
    LET r == sent[1]
    IN /\ Len(r) = 32
       /\ r[1] = 1 /\ r[2] = 1
       /\ r[3] = 0 /\ r[4] = 12
       /\ r[5] = 33 /\ r[6] = 18 /\ r[7] = 164 /\ r[8] = 66
       /\ \A k \in 9..20 : r[k] = msg[k]
       /\ r[21] = 0 /\ r[22] = 32
       /\ r[23] = 0 /\ r[24] = 8
       /\ r[25] = 0
       /\ r[26] = 1
       /\ r[27] = xor(rinfo.port \div 256, 33)
       /\ r[28] = xor(rinfo.port % 256, 18)

C12_Witness ==
  /\ Len(sent) = 1
  /\ admit
  /\ variant = "bun"
  /\ rinfo.port = 54321
  /\ sent[1][27] = 245 /\ sent[1][28] = 35
  /\ SubSeq(sent[1], 9, 20) = TransactionIdB

\* C13: applying the encoder's XOR transform a second time to
\* (xorPort, xorAddress) with the same magic cookie and transaction id
\* recovers the original port and address.
C13_RoundTrip ==
  enc.phase = "back" =>
    /\ Len(enc.back) = 12
    /\ 256 * enc.back[7] + enc.back[8] = enc.a.port
    /\ \A k \in 1..4 : enc.back[8 + k] = enc.a.octets[k]

C13_Witness ==
  /\ enc.phase = "back"
  /\ enc.a.port = 54321
  /\ enc.a.octets = <<203, 0, 113, 7>>
  /\ enc.a.transactionId = TransactionIdA
  /\ enc.outA # enc.back
  /\ enc.back[9] = 203

\* C14: the admission gate is global: the admit/reject decision and the
\* resulting limiter state are the same for every datagram content and every
\* sender arriving at the same time in the same state, and once one sender
\* has tripped the limiter the datagrams of every sender are rejected until
\* the un-pause callback runs.
C14_GateIsGlobal ==
  LET ref == onMessage(variant, lim, now, <<>>, NoSender)
  IN /\ \A d \in Datagrams, s \in Senders :
          LET h == onMessage(variant, lim, now, d, s)
          IN /\ h.st = ref.st
             /\ h.admit = ref.admit
             /\ (tripFrom # NoSender => ~h.admit /\ h.sent = <<>>)
     /\ (tripFrom # NoSender <=> isPaused)
     /\ (msgPaused => ~admit /\ sent = <<>>)

C14_Witness ==
  /\ isPaused
  /\ event = "message"
  /\ msgPaused
  /\ tripFrom \in Senders
  /\ rinfo \in Senders
  /\ rinfo # tripFrom
  /\ IsBindingRequest(msg)
  /\ ~admit
  /\ sent = <<>>

\* A step in which a datagram handler ran.
IsMessageStep == event' = "message" /\ now' = now /\ vars' # vars

\* C15: a check in Open admits if and only if, after pruning the expired
\* timestamps and appending now, the count is at most MaxRequests; otherwise
\* the same call sets Paused, schedules exactly one un-pause, rejects, and the
\* tripping timestamp stays recorded (count = MaxRequests + 1) until the
\* un-pause clears it.
C15_OpenCheck ==
  [][ /\ (IsMessageStep /\ ~isPaused) =>
           LET kept == SelectSeq(timestamps, LAMBDA ts : ts > now - TimeWindow)
               count == Len(kept) + 1
           IN /\ timestamps' = Append(kept, now)
              /\ admit' <=> count <= MaxRequests
              /\ count <= MaxRequests => (~isPaused' /\ timers' = timers)
              /\ count > MaxRequests =>
                   /\ ~admit'
                   /\ isPaused'
                   /\ timers' = <<now + PauseDuration>>
                   /\ Len(timestamps') = MaxRequests + 1
      /\ (isPaused /\ isPaused') => timestamps' = timestamps
      /\ (isPaused /\ ~isPaused') => timestamps' = <<>> ]_vars

C15_Witness ==
  /\ event = "message"
  /\ isPaused
  /\ ~msgPaused
  /\ ~admit
  /\ pausedAt = now
  /\ Len(timestamps) = MaxRequests + 1
  /\ timestamps[1] < now
  /\ timers = <<now + PauseDuration>>

\* C16: a check in Open drops exactly the timestamps older than TimeWindow
\* (now - ts > TimeWindow) and retains every other one; a timestamp whose age
\* is exactly TimeWindow is still counted by that check.
C16_DropsOnlyOlderThanWindow ==
  [][ (IsMessageStep /\ ~isPaused) =>
        LET kept == SelectSeq(timestamps, LAMBDA ts : ~(now - ts > TimeWindow))
        IN /\ timestamps' = Append(kept, now)
           /\ admit' <=> Len(kept) + 1 <= MaxRequests ]_vars

\* C17: an admission check made while Paused leaves the limiter state
\* unchanged: no timestamp is added or pruned, paused stays set, and no
\* un-pause is scheduled or postponed; the datagram is rejected.
C17_PausedCheckChangesNothing ==
  [][ (IsMessageStep /\ isPaused) =>
        /\ timestamps' = timestamps
        /\ isPaused'
        /\ timers' = timers
        /\ msgPaused'
        /\ ~admit'
        /\ sent' = <<>> ]_vars

C17_Witness ==
  /\ event = "message"
  /\ msgPaused
  /\ isPaused
  /\ ~admit
  /\ timers = <<pausedAt + PauseDuration>>
  /\ timestamps[MaxRequests + 1] = pausedAt
  /\ now >= pausedAt + PauseDuration

\* C18: the admission check is made once per datagram and before decoding:
\* every datagram that arrives in Open records exactly one timestamp and
\* counts toward MaxRequests whether or not it decodes as a Binding Request,
\* so datagrams that get no response can trip the limiter by themselves.
C18_EveryDatagramCounts ==
  [][ (IsMessageStep /\ ~isPaused) =>
        /\ Len(timestamps') = Len(prune(timestamps, now)) + 1
        /\ timestamps'[Len(timestamps')] = now
        /\ \A k \in 1..(Len(timestamps') - 1) : timestamps'[k] < now \/ timestamps'[k] = now
        /\ isPaused' <=> Len(prune(timestamps, now)) >= MaxRequests
        /\ (sent' # <<>>) => (admit' /\ IsBindingRequest(msg')) ]_vars

C18_Witness ==
  /\ isPaused
  /\ event = "message"
  /\ ~msgPaused
  /\ ~answered
  /\ ~IsBindingRequest(msg)
  /\ nChecks = MaxRequests + 1
  /\ Len(timestamps) = MaxRequests + 1

\* C19: in every reachable state an un-pause callback is pending exactly when
\* the limiter is paused, and at most one un-pause callback is pending.
C19_OnePendingTimerIffPaused ==
  /\ Len(timers) <= 1
  /\ (Len(timers) = 1) <=> isPaused

C19_Witness ==
  /\ isPaused
  /\ Len(timers) = 1
  /\ timers[1] < now
  /\ event = "message"
  /\ msgPaused
  /\ nChecks = MaxRequests + 2

\* C20: in every reachable state at most MaxRequests + 1 timestamps are
\* recorded, and at most MaxRequests while the limiter is open.
C20_TimestampCountBounded ==
  /\ Len(timestamps) <= MaxRequests + 1
  /\ ~isPaused => Len(timestamps) <= MaxRequests

C20_Witness ==
  /\ ~isPaused
  /\ Len(timestamps) = MaxRequests
  /\ pausedAt >= 0
  /\ event = "message"
  /\ admit

\* C21: the Bun gate (isPaused || !checkRateLimit(), with the && !isPaused
\* guard inside checkRateLimit) and RateLimiter.check, run side by side on the
\* same arrival times and timer firings, make the same admit/reject decision
\* for every datagram and hold the same timestamps and paused flag (and the
\* same pending timers) after every step.
C21_BunGateEquivalentToCheck ==
  /\ twin.timestamps = timestamps
  /\ twin.isPaused = isPaused
  /\ twin.timers = timers
  /\ twin.admit = admit

C21_Witness ==
  /\ variant = "bun"
  /\ event = "message"
  /\ msgPaused
  /\ ~admit
  /\ ~twin.admit
  /\ twin.isPaused
  /\ Len(twin.timestamps) = MaxRequests + 1
  /\ pausedAt >= 0
  /\ nChecks = MaxRequests + 2

====
